---- MODULE Spec2Model ----
(***************************************************************************)
(* Model of open-edhrec-embed: the EDHREC scraper's ingestion into the      *)
(* relational store (src/src/data/edhrec_scraper.py) and the training-set   *)
(* construction pipeline (src/src/data/training_set_creator.py).            *)
(*                                                                          *)
(* Specifications:                                                          *)
(*   Spec       a pipeline run: TrainingSetCreator(...) followed by         *)
(*              create_training_set(T), as scripts/create_training_set.py   *)
(*   SpecApi    the constructor followed by direct calls of the creator's   *)
(*              methods (threshold filter, bulk precomputation)             *)
(*   SpecScrape runs of scripts/scrape_edhrec.py against the store          *)
(*   SpecPmi    the scoring function pmi alone, on a grid of rates          *)
(***************************************************************************)
EXTENDS Integers, Sequences, FiniteSets, TLC

\* ------------------------------------------------------------------ bounds
MaxDecks == 2
MaxCommanders == 2
MaxCards == 2
MaxThreshold == 1
MaxWebCommanders == 2
MaxHashes == 2
MaxPageHashes == 2
MaxCardNames == 2
MaxListLen == 2
MaxRuns == 2
FineSteps == 4
CoarseSteps == 4

\* ------------------------------------------------------------- arithmetic
\* Rates are Python floats obtained by dividing two deck counts; they are
\* modelled exactly, as fractions <<numerator, denominator>> in lowest terms.
RECURSIVE GCD(_, _)
GCD(a, b) == IF b = 0 THEN a ELSE GCD(b, a % b)

Rat(n, d) == LET g == GCD(n, d) IN <<n \div g, d \div g>>

RatZero == <<0, 1>>

RatLess(p, q) == p[1] * q[2] < q[1] * p[2]

RatMax(p, q) == IF RatLess(p, q) THEN q ELSE p

RatDiv(p, q) == Rat(p[1] * q[2], p[2] * q[1])

Min(a, b) == IF a < b THEN a ELSE b

\* --------------------------------------------------------------- the store
\* The four tables of setup_database. commanders and cards are sequences of
\* names (the AUTOINCREMENT id of a row is its position), decks is a set of
\* rows, deck_cards a set of <<deck_id, card_id>> rows; deck_seq is the
\* sqlite_sequence entry of decks.
EmptyStore ==
    [commanders |-> <<>>, cards |-> <<>>, decks |-> {}, deck_cards |-> {},
     deck_seq |-> 0]

CommanderNames == <<"A", "B", "C", "D">>

\* The store with one more deck saved: the deck of commander commander_id (a
\* new commander when the id is the next free one) with the known cards old
\* and `fresh` new cards. Ids are AUTOINCREMENT, so commanders, cards and decks
\* are numbered in the order of their first insertion; a card's name is
\* taken to be its id, a deck's source key its id.
NewDeck(store, commander_id, old, fresh) ==
    LET deck_id == store.deck_seq + 1
        known == Len(store.cards)
    IN  [commanders |-> IF commander_id > Len(store.commanders)
                        THEN Append(store.commanders, CommanderNames[commander_id])
                        ELSE store.commanders,
         cards |-> [c \in 1..(known + fresh) |-> c],
         decks |-> store.decks \cup
                    {[id |-> deck_id, commander_id |-> commander_id, url_hash |-> deck_id]},
         deck_cards |-> store.deck_cards \cup
                    {<<deck_id, c>> : c \in old \cup ((known + 1)..(known + fresh))},
         deck_seq |-> deck_id]

\* The stores of n decks an ingestion can leave, within the bounds
RECURSIVE StoresWith(_)
StoresWith(n) ==
    IF n = 0 THEN {EmptyStore}
    ELSE UNION {{NewDeck(store, commander_id, old, fresh) :
                    commander_id \in 1..Min(Len(store.commanders) + 1, MaxCommanders),
                    old \in SUBSET (1..Len(store.cards)),
                    fresh \in 0..(MaxCards - Len(store.cards))} :
                store \in StoresWith(n - 1)}

TrainingStores == UNION {StoresWith(n) : n \in 0..MaxDecks}

Thresholds == 0..MaxThreshold

\* ------------------------------------------------------------ SQL queries
\* SELECT COUNT(*) FROM decks
CountDecks(store) == Cardinality(store.decks)

\* COUNT(DISTINCT deck_id) of one card_id group of deck_cards
DeckCount(store, card) ==
    Cardinality({r[1] : r \in {x \in store.deck_cards : x[2] = card}})

\* HAVING COUNT(DISTINCT deck_id) > ?
AboveThresholdTooWeak(count, threshold) == count >= threshold
AboveThreshold(count, threshold) == count > threshold

\* SELECT card_id FROM deck_cards GROUP BY card_id HAVING COUNT(DISTINCT deck_id) > ?
CardsAboveThresholdQuery(store, threshold) ==
    {c \in {r[2] : r \in store.deck_cards} :
        AboveThreshold(DeckCount(store, c), threshold)}

\* SELECT card_id, COUNT(DISTINCT deck_id) FROM deck_cards
\* WHERE card_id IN (vocabulary) GROUP BY card_id
InclusionCountsQuery(store, vocabulary) ==
    {<<c, DeckCount(store, c)>> : c \in {r[2] : r \in store.deck_cards} \cap vocabulary}

\* SELECT DISTINCT d.commander_id, dc.card_id FROM decks d INNER JOIN deck_cards dc
\* ON d.id = dc.deck_id WHERE dc.card_id IN (vocabulary): the rows, unordered
CommanderCardRows(store, vocabulary) ==
    {<<d.commander_id, r[2]>> : <<d, r>> \in
        {x \in store.decks \X store.deck_cards :
            x[1].id = x[2][1] /\ x[2][2] \in vocabulary}}

PairLeq(p, q) == p[1] < q[1] \/ (p[1] = q[1] /\ p[2] <= q[2])

\* ORDER BY d.commander_id, dc.card_id
RECURSIVE OrderByPair(_)
OrderByPair(S) ==
    IF S = {} THEN <<>>
    ELSE LET m == CHOOSE x \in S : \A y \in S : PairLeq(x, y)
         IN  <<m>> \o OrderByPair(S \ {m})

\* The ids of the commander's decks that hold every card of cs
DecksWith(store, commander, cs) ==
    {d.id : d \in {x \in store.decks :
        x.commander_id = commander /\ \A c \in cs : <<x.id, c>> \in store.deck_cards}}

\* The bulk conditional-rates query: one row per group (commander, condition,
\* target) of decks JOIN deck_cards dc_condition LEFT JOIN deck_cards dc_target.
\* Both joins are on the deck id, so a group holds the joined rows of the decks
\* of the commander that contain the condition card and the target card;
\* denominator and numerator are both COUNT(DISTINCT d.id) over that group (no
\* joined row has a NULL target, since the condition row itself joins as a
\* target).
ConditionalRatesQuery(store, vocabulary) ==
    {[commander_id |-> g[1], condition_card_id |-> g[2], target_card_id |-> g[3],
      denominator |-> Cardinality(DecksWith(store, g[1], {g[2], g[3]})),
      numerator |-> Cardinality(DecksWith(store, g[1], {g[2], g[3]}))] :
        g \in {x \in {d.commander_id : d \in store.decks} \X vocabulary \X vocabulary :
                 DecksWith(store, x[1], {x[2], x[3]}) # {}}}


\* ------------------------------------------------------------------- state
VARIABLES
    committed,                    \* the store on disk (what a new connection reads)
    db,                           \* the store as the scraper's connection sees it
    spc,                          \* scraper: "idle", "running", "finished", "aborted", "interrupted"
    s_error,                      \* the exception that ended the scraper's run, "" when none
    s_commanders,                 \* gather_decks: the commanders left by the slice
    s_i,                          \* gather_decks: the commanders entered so far
    decks_to_visit,               \* gather_decks: the current commander's deck hashes
    s_j,                          \* gather_decks: the decks of the current commander visited
    decks_per_commander,          \* gather_decks's argument
    visits,                       \* total_decks_visited, successful_visits, failed_visits
    runs,                         \* the runs of the script so far
    rejected,                     \* history: source keys of the invalid decks handed to _save_decklist
    checkpoint,                   \* gather_decks's argument: resume from the last commander
    previous_end,                 \* history: spc when the current run was started
    pmi_in,                       \* the scorer alone: two conditional rates and a marginal rate
    pmi_out,                      \* the scorer alone: the two scores, <<>> before the calls
    tpc,                          \* TrainingSetCreator: "new", "ready", "sampling", "done", "error"
    t_error,                      \* the exception that ended the run, "" when none
    inclusion_threshold,          \* the constructor's argument
    threshold,                    \* create_training_set's argument
    self_counts,                  \* num_commanders, num_decks, num_cards
    cards_above_threshold_cache,  \* threshold -> set of card ids
    inclusion_rates_cache,        \* card id -> rate
    conditional_rates_cache,      \* <<commander, condition, target>> -> rate
    commander_cards,              \* commander id -> list of card ids
    pairs,                        \* list of <<commander id, card id>>
    examples_per_pair,
    data,                         \* the pre-allocated buffer of <<commander, condition, target>> rows
    scores,                       \* the pre-allocated buffer of scores
    example_idx,
    pair_idx,                     \* number of anchors whose sample has been drawn
    cards_in_commander,           \* the targets of the current anchor still to be visited
    threshold_queries,            \* history: threshold -> number of threshold queries executed
    rate_queries,                 \* history: the precomputation queries executed, with their vocabulary
    score_call,                   \* history: the arguments of the last score_fn call
    last_call,                    \* history: the last direct _get_cards_above_threshold call
    skips,                        \* history: the anchors whose self-pair was drawn and skipped
    drew_condition                \* history: the anchors whose sample holds their condition card

creatorVars ==
    <<tpc, t_error, inclusion_threshold, threshold, self_counts,
      cards_above_threshold_cache, inclusion_rates_cache, conditional_rates_cache,
      commander_cards, pairs, examples_per_pair, data, scores, example_idx, pair_idx,
      cards_in_commander, threshold_queries, rate_queries, score_call, last_call,
      skips, drew_condition>>

scraperVars ==
    <<db, spc, s_error, s_commanders, s_i, decks_to_visit, s_j, decks_per_commander,
      visits, runs, rejected, checkpoint, previous_end>>

pmiVars == <<pmi_in, pmi_out>>

vars == <<committed, scraperVars, creatorVars, pmiVars>>

\* ----------------------------------------------------------- EDHRECScraper
\* `if len(decklist) > 99`
MaxDeckSize == 99

\* [card for card, count in Counter(decklist).items() if count > 1]
Duplicates(decklist) ==
    {decklist[a] : a \in {x \in 1..Len(decklist) :
                            \E y \in 1..Len(decklist) : y # x /\ decklist[y] = decklist[x]}}

\* the id of the row of a names table (commanders, cards) with the given name, 0 when none
IdOf(names, name) ==
    IF \E k \in 1..Len(names) : names[k] = name
    THEN CHOOSE k \in 1..Len(names) : names[k] = name
    ELSE 0

\* SELECT ... WHERE name = ?, then INSERT OR IGNORE when there is no such row
WithName(names, name) == IF IdOf(names, name) = 0 THEN Append(names, name) ELSE names

\* lines 143-152: the cards of the decklist inserted and linked to the deck. A
\* <<deck_id, card_id>> row that exists already raises IntegrityError, which is
\* caught: the row is left as it is.
RECURSIVE InsertCards(_, _, _)
InsertCards(store, deck_id, decklist) ==
    IF decklist = <<>> THEN store
    ELSE LET cards == WithName(store.cards, Head(decklist))
             card_id == IdOf(cards, Head(decklist))
         IN  InsertCards([store EXCEPT !.cards = cards,
                                       !.deck_cards = @ \cup {<<deck_id, card_id>>}],
                         deck_id, Tail(decklist))

\* _save_decklist: the connection's store after the call, the exception raised
\* ("" when none) and whether the call committed.
SaveDecklist(store, commander_name, deck_url_hash, decklist) ==
    LET commanders == WithName(store.commanders, commander_name)
        commander_id == IdOf(commanders, commander_name)
        deck_id == store.deck_seq + 1
        with_deck == [store EXCEPT
                        !.commanders = commanders,
                        !.decks = @ \cup {[id |-> deck_id, commander_id |-> commander_id,
                                           url_hash |-> deck_url_hash]},
                        !.deck_seq = deck_id]
    IN  IF \E d \in store.decks : d.url_hash = deck_url_hash
        THEN \* UNIQUE constraint failed: decks.url_hash
             [store |-> [store EXCEPT !.commanders = commanders],
              raised |-> "sqlite3.IntegrityError", commit |-> FALSE]
        ELSE IF Len(decklist) > MaxDeckSize
        THEN [store |-> with_deck, raised |-> "", commit |-> FALSE]
        ELSE IF Duplicates(decklist) # {}
        THEN [store |-> with_deck, raised |-> "", commit |-> FALSE]
        ELSE [store |-> InsertCards(with_deck, deck_id, decklist),
              raised |-> "", commit |-> TRUE]

\* _get_last_commander_id: SELECT id FROM commanders ORDER BY id DESC LIMIT 1
LastCommanderId(store) == Len(store.commanders)

\* _remove_decks_by_commander_id: the two DELETEs
RemoveDecksByCommanderId(store, commander_id) ==
    LET gone == {d \in store.decks : d.commander_id = commander_id}
    IN  [store EXCEPT !.deck_cards = {r \in @ : \A d \in gone : d.id # r[1]},
                      !.decks = @ \ gone]

\* empty_tables: every table and sqlite_sequence emptied
EmptyTables(store) == EmptyStore

\* the pages the scraper reads: the commanders page lists a prefix of
\* CommanderNames, a commander's page any short list of deck hashes, a deck
\* page a short decklist, a decklist of MaxDeckSize + 1 distinct cards, or
\* nothing (the empty list: a failed visit)
CommanderPages == {SubSeq(CommanderNames, 1, n) : n \in 0..MaxWebCommanders}

HashPages == UNION {[1..n -> 1..MaxHashes] : n \in 0..MaxPageHashes}

Oversize == [k \in 1..(MaxDeckSize + 1) |-> k]

DeckPages == UNION {[1..n -> 1..MaxCardNames] : n \in 0..MaxListLen} \cup {Oversize}

\* commanders[lo:hi] of a Python list, lo and hi not negative (0-based, hi excluded)
Slice(list, lo, hi) == SubSeq(list, lo + 1, Min(hi, Len(list)))

ScraperInit ==
    /\ db = committed
    /\ spc = "idle"
    /\ s_error = ""
    /\ s_commanders = <<>>
    /\ s_i = 0
    /\ decks_to_visit = <<>>
    /\ s_j = 0
    /\ decks_per_commander = 0
    /\ visits = [total |-> 0, successful |-> 0, failed |-> 0]
    /\ runs = 0
    /\ rejected = {}
    /\ checkpoint = FALSE
    /\ previous_end = "idle"

\* scripts/scrape_edhrec.py main() up to the loop of gather_decks (lines
\* 171-194): the tables emptied unless continuing, the commanders page read,
\* and with checkpoint the decks of the last commander removed and the list
\* cut at that commander.
Main(continue_existing_db, commanders, num_commanders, per_commander) ==
    /\ spc \in {"idle", "finished", "aborted", "interrupted"}
    /\ runs < MaxRuns
    /\ runs' = runs + 1
    /\ decks_per_commander' = per_commander
    /\ checkpoint' = continue_existing_db
    /\ previous_end' = spc
    /\ visits' = [total |-> 0, successful |-> 0, failed |-> 0]
    /\ s_i' = 0
    /\ s_j' = 0
    /\ decks_to_visit' = <<>>
    /\ LET start == IF continue_existing_db THEN committed ELSE EmptyTables(committed)
           last_commander_id == LastCommanderId(start)
           removed == RemoveDecksByCommanderId(start, last_commander_id)
           checkpoint_idx == last_commander_id - 1
       IN  IF commanders = <<>>
           THEN \* "No commanders found!": gather_decks returns, main commits
                /\ spc' = "finished"
                /\ s_error' = ""
                /\ s_commanders' = <<>>
                /\ db' = start
                /\ committed' = start
           ELSE IF ~continue_existing_db
           THEN /\ spc' = "running"
                /\ s_error' = ""
                /\ s_commanders' = Slice(commanders, 0, num_commanders)
                /\ db' = start
                /\ committed' = start
           ELSE IF start.commanders = <<>>
           THEN \* fetchone() is None: None[0] raises TypeError
                /\ spc' = "aborted"
                /\ s_error' = "TypeError"
                /\ s_commanders' = <<>>
                /\ db' = start
                /\ committed' = start
           ELSE IF checkpoint_idx >= Len(commanders)
           THEN \* commanders[checkpoint_idx] in the message raises IndexError
                /\ spc' = "aborted"
                /\ s_error' = "IndexError"
                /\ s_commanders' = <<>>
                /\ db' = removed
                /\ committed' = removed
           ELSE /\ spc' = "running"
                /\ s_error' = ""
                /\ s_commanders' = Slice(commanders, checkpoint_idx, num_commanders)
                /\ db' = removed
                /\ committed' = removed
    /\ UNCHANGED <<rejected, creatorVars, pmiVars>>

\* lines 196-206: the next commander and the deck hashes of its page
NextCommander(deck_hashes) ==
    /\ spc = "running"
    /\ s_j = Len(decks_to_visit)
    /\ s_i < Len(s_commanders)
    /\ s_i' = s_i + 1
    /\ decks_to_visit' = Slice(deck_hashes, 0, decks_per_commander)
    /\ s_j' = 0
    /\ UNCHANGED <<committed, db, spc, s_error, s_commanders, decks_per_commander,
                   visits, runs, rejected, checkpoint, previous_end, creatorVars, pmiVars>>

\* lines 207-216: one deck page visited and its decklist saved
VisitDeck(decklist) ==
    /\ spc = "running"
    /\ s_j < Len(decks_to_visit)
    /\ LET commander == s_commanders[s_i]
           deck_url_hash == decks_to_visit[s_j + 1]
           saved == SaveDecklist(db, commander, deck_url_hash, decklist)
           invalid == Len(decklist) > MaxDeckSize \/ Duplicates(decklist) # {}
           known == \E d \in db.decks : d.url_hash = deck_url_hash
       IN  IF decklist = <<>>
           THEN /\ visits' = [visits EXCEPT !.failed = @ + 1, !.total = @ + 1]
                /\ s_j' = s_j + 1
                /\ UNCHANGED <<db, committed, spc, s_error, rejected>>
           ELSE IF saved.raised # ""
           THEN \* the exception leaves gather_decks and main: nothing is
                \* committed and the connection is dropped
                /\ spc' = "aborted"
                /\ s_error' = saved.raised
                /\ db' = committed
                /\ UNCHANGED <<committed, visits, s_j, rejected>>
           ELSE /\ db' = saved.store
                /\ committed' = IF saved.commit THEN saved.store ELSE committed
                /\ visits' = [visits EXCEPT !.successful = @ + 1, !.total = @ + 1]
                /\ s_j' = s_j + 1
                /\ rejected' = IF invalid /\ ~known THEN rejected \cup {deck_url_hash}
                               ELSE rejected \ {deck_url_hash}
                /\ UNCHANGED <<spc, s_error>>
    /\ UNCHANGED <<s_commanders, s_i, decks_to_visit, decks_per_commander, runs,
                   checkpoint, previous_end, creatorVars, pmiVars>>

\* the loop is over: the summary, then main's conn.commit() and conn.close()
EndGather ==
    /\ spc = "running"
    /\ s_j = Len(decks_to_visit)
    /\ s_i = Len(s_commanders)
    /\ committed' = db
    /\ spc' = "finished"
    /\ UNCHANGED <<db, s_error, s_commanders, s_i, decks_to_visit, s_j,
                   decks_per_commander, visits, runs, rejected, checkpoint, previous_end,
                   creatorVars, pmiVars>>

\* the process is killed during the loop: what was not committed is lost
Interrupt ==
    /\ spc = "running"
    /\ spc' = "interrupted"
    /\ db' = committed
    /\ UNCHANGED <<committed, s_error, s_commanders, s_i, decks_to_visit, s_j,
                   decks_per_commander, visits, runs, rejected, checkpoint, previous_end,
                   creatorVars, pmiVars>>

\* ------------------------------------------------ TrainingSetCreator: caches
\* _get_cards_above_threshold: `if threshold not in self.cards_above_threshold_cache`
CacheMiss(cache, t) == t \notin DOMAIN cache

\* the cache after _get_cards_above_threshold(t)
CardsCacheAfter(store, cache, t) ==
    IF CacheMiss(cache, t)
    THEN (t :> CardsAboveThresholdQuery(store, t)) @@ cache
    ELSE cache

\* the value _get_cards_above_threshold(t) returns
GetCardsAboveThreshold(store, cache, t) == CardsCacheAfter(store, cache, t)[t]

\* the threshold queries executed, after _get_cards_above_threshold(t)
QueriesAfter(queries, cache, t) ==
    IF CacheMiss(cache, t) THEN [queries EXCEPT ![t] = @ + 1] ELSE queries

\* _precompute_inclusion_rates: the loop over the result rows
InclusionRatesAfter(cache, rows, num_decks) ==
    [c \in DOMAIN cache \cup {r[1] : r \in rows} |->
        IF \E r \in rows : r[1] = c
        THEN LET r == CHOOSE x \in rows : x[1] = c
             IN  IF num_decks > 0 THEN Rat(r[2], num_decks) ELSE RatZero
        ELSE cache[c]]

\* _precompute_all_conditional_rates: the loop over the result rows
ConditionalRatesAfter(cache, rows) ==
    LET key(r) == <<r.commander_id, r.condition_card_id, r.target_card_id>>
    IN  [k \in DOMAIN cache \cup {key(r) : r \in rows} |->
            IF \E r \in rows : key(r) = k
            THEN LET r == CHOOSE x \in rows : key(x) = k
                 IN  IF r.denominator > 0 THEN Rat(r.numerator, r.denominator)
                     ELSE RatZero
            ELSE cache[k]]

\* _get_conditional_inclusion_rate_cached: KeyError -> 0.0
ConditionalRateCached(cache, card_id, condition_card_id, condition_commander_id) ==
    LET k == <<condition_commander_id, condition_card_id, card_id>>
    IN  IF k \in DOMAIN cache THEN cache[k] ELSE RatZero

\* ------------------------------------------------------------------ scorer
min_conditional_rate == <<1, 10000>>

pmiNoFloor(conditional_rate, inclusion_rate) ==
    IF inclusion_rate[1] = 0
    THEN [raised |-> "ZeroDivisionError", log2_of |-> RatZero]
    ELSE [raised |-> "", log2_of |-> RatDiv(conditional_rate, inclusion_rate)]

\* pmi: log2(max(conditional_rate, min_conditional_rate) / inclusion_rate). A score
\* log2(q) is represented by its argument q, an exact fraction; log2 is strictly
\* increasing, so scores compare as their arguments do. Dividing by an
\* inclusion rate of 0.0 raises ZeroDivisionError.
pmi(conditional_rate, inclusion_rate) ==
    IF inclusion_rate[1] = 0
    THEN [raised |-> "ZeroDivisionError", log2_of |-> RatZero]
    ELSE [raised |-> "",
          log2_of |-> RatDiv(RatMax(conditional_rate, min_conditional_rate),
                             inclusion_rate)]

\* _get_score: the two cache lookups handed to score_fn
ScoreArgs(inc_cache, cond_cache, card_id, condition_card_id, condition_commander_id) ==
    [commander |-> condition_commander_id, condition |-> condition_card_id,
     target |-> card_id,
     inclusion_cached |-> card_id \in DOMAIN inc_cache,
     inclusion_rate |-> IF card_id \in DOMAIN inc_cache THEN inc_cache[card_id]
                        ELSE RatZero,
     conditional_rate |->
        ConditionalRateCached(cond_cache, card_id, condition_card_id,
                              condition_commander_id)]


\* ------------------------------------------- TrainingSetCreator: operations
NoFunction == [x \in {} |-> 0]

CreatorInit ==
    /\ tpc = "new"
    /\ t_error = ""
    /\ inclusion_threshold = 0
    /\ threshold = 0
    /\ self_counts = [num_commanders |-> 0, num_decks |-> 0, num_cards |-> 0]
    /\ cards_above_threshold_cache = NoFunction
    /\ inclusion_rates_cache = NoFunction
    /\ conditional_rates_cache = NoFunction
    /\ commander_cards = NoFunction
    /\ pairs = <<>>
    /\ examples_per_pair = 0
    /\ data = <<>>
    /\ scores = <<>>
    /\ example_idx = 0
    /\ pair_idx = 0
    /\ cards_in_commander = <<>>
    /\ threshold_queries = [t \in Thresholds |-> 0]
    /\ rate_queries = {}
    /\ score_call = <<>>
    /\ last_call = <<>>
    /\ skips = {}
    /\ drew_condition = {}

samplerVars ==
    <<commander_cards, pairs, examples_per_pair, data, scores, example_idx, pair_idx,
      cards_in_commander, skips, drew_condition, threshold>>

\* __init__(db_path, inclusion_threshold): the three counts, the empty caches,
\* then _precompute_inclusion_rates(inclusion_threshold)
Construct(it) ==
    /\ tpc = "new"
    /\ LET num_decks == CountDecks(committed)
           cache == CardsCacheAfter(committed, NoFunction, it)
           vocabulary == GetCardsAboveThreshold(committed, NoFunction, it)
           rows == InclusionCountsQuery(committed, vocabulary)
       IN  /\ self_counts' = [num_commanders |-> Len(committed.commanders),
                              num_decks |-> num_decks,
                              num_cards |-> Len(committed.cards)]
           /\ cards_above_threshold_cache' = cache
           /\ threshold_queries' = QueriesAfter(threshold_queries, NoFunction, it)
           /\ inclusion_rates_cache' = InclusionRatesAfter(NoFunction, rows, num_decks)
           /\ rate_queries' =
                rate_queries \cup {[kind |-> "inclusion", vocabulary |-> vocabulary]}
    /\ conditional_rates_cache' = NoFunction
    /\ inclusion_threshold' = it
    /\ tpc' = "ready"
    /\ UNCHANGED <<committed, scraperVars, pmiVars, t_error, samplerVars, score_call, last_call>>

\* a direct call of _get_cards_above_threshold(t)
CallGetCardsAboveThreshold(t) ==
    /\ tpc = "ready"
    /\ cards_above_threshold_cache' =
            CardsCacheAfter(committed, cards_above_threshold_cache, t)
    /\ threshold_queries' = QueriesAfter(threshold_queries, cards_above_threshold_cache, t)
    /\ last_call' =
        <<[threshold |-> t,
           cached |-> t \in DOMAIN cards_above_threshold_cache,
           result |-> GetCardsAboveThreshold(committed, cards_above_threshold_cache, t)]>>
    /\ UNCHANGED <<committed, scraperVars, pmiVars, tpc, t_error, inclusion_threshold, self_counts,
                   inclusion_rates_cache, conditional_rates_cache, samplerVars,
                   rate_queries, score_call>>

\* a direct call of _precompute_all_conditional_rates(t)
CallPrecomputeAllConditionalRates(t) ==
    /\ tpc = "ready"
    /\ LET vocabulary == GetCardsAboveThreshold(committed, cards_above_threshold_cache, t)
           rows == ConditionalRatesQuery(committed, vocabulary)
       IN  /\ conditional_rates_cache' =
                    ConditionalRatesAfter(conditional_rates_cache, rows)
           /\ rate_queries' =
                rate_queries \cup {[kind |-> "conditional", vocabulary |-> vocabulary]}
    /\ cards_above_threshold_cache' =
            CardsCacheAfter(committed, cards_above_threshold_cache, t)
    /\ threshold_queries' = QueriesAfter(threshold_queries, cards_above_threshold_cache, t)
    /\ UNCHANGED <<committed, scraperVars, pmiVars, tpc, t_error, inclusion_threshold, self_counts,
                   inclusion_rates_cache, samplerVars, score_call, last_call>>

\* ------------------------------------------------------ create_training_set
\* _get_all_commander_cards_above_threshold: the rows grouped by commander, each
\* commander's cards in the order of the rows
RECURSIVE CardsOfCommander(_, _)
CardsOfCommander(rows, commander_id) ==
    IF rows = <<>> THEN <<>>
    ELSE (IF Head(rows)[1] = commander_id THEN <<Head(rows)[2]>> ELSE <<>>)
            \o CardsOfCommander(Tail(rows), commander_id)

GroupByCommander(rows) ==
    [commander_id \in {rows[k][1] : k \in 1..Len(rows)} |->
        CardsOfCommander(rows, commander_id)]

\* torch.min(torch.LongTensor([len(cards) for cards in commander_cards.values()]))
MinCards(cc) ==
    CHOOSE m \in {Len(cc[c]) : c \in DOMAIN cc} : \A c \in DOMAIN cc : m <= Len(cc[c])

\* the number of cards the slice shuffled_indices[:examples_per_pair] keeps
SampleSizeUntruncated(n, epp) == n
SampleSize(n, epp) == Min(n, epp)

\* the outcomes of torch.randperm(n)[:k]: the sequences of k distinct indices
SamplesWithReplacement(k, n) == [1..k -> 1..n]
Samples(k, n) ==
    {s \in [1..k -> 1..n] : \A a, b \in 1..k : a # b => s[a] # s[b]}

\* `if target_card_id.item() == condition_card_id: continue`
NeverSelfPair(target_card_id, condition_card_id) == FALSE
IsSelfPair(target_card_id, condition_card_id) == target_card_id = condition_card_id

\* torch.zeros: a zero row, and the score 0.0 = log2(1)
ZeroRow == <<0, 0, 0>>
ZeroScore == <<1, 1>>

\* lines 165-190: the three lookups, examples_per_pair and the buffers
CreateTrainingSet(t) ==
    /\ tpc = "ready"
    /\ threshold' = t
    /\ LET cache1 == CardsCacheAfter(committed, cards_above_threshold_cache, t)
           cache2 == CardsCacheAfter(committed, cache1, t)
           cache3 == CardsCacheAfter(committed, cache2, t)
           queries1 == QueriesAfter(threshold_queries, cards_above_threshold_cache, t)
           queries2 == QueriesAfter(queries1, cache1, t)
           queries3 == QueriesAfter(queries2, cache2, t)
           cc == GroupByCommander(OrderByPair(
                    CommanderCardRows(committed, GetCardsAboveThreshold(committed, cache1, t))))
           ps == OrderByPair(
                    CommanderCardRows(committed, GetCardsAboveThreshold(committed, cache2, t)))
       IN  /\ cards_above_threshold_cache' = cache3
           /\ threshold_queries' = queries3
           /\ commander_cards' = cc
           /\ pairs' = ps
           /\ IF DOMAIN cc = {}
              THEN \* torch.min of an empty tensor raises RuntimeError
                   /\ tpc' = "error"
                   /\ t_error' = "RuntimeError"
                   /\ UNCHANGED <<examples_per_pair, data, scores>>
              ELSE /\ examples_per_pair' = MinCards(cc)
                   /\ data' = [k \in 1..(Len(ps) * MinCards(cc)) |-> ZeroRow]
                   /\ scores' = [k \in 1..(Len(ps) * MinCards(cc)) |-> ZeroScore]
                   /\ tpc' = "sampling"
                   /\ t_error' = ""
    /\ example_idx' = 0
    /\ pair_idx' = 0
    /\ cards_in_commander' = <<>>
    /\ UNCHANGED <<committed, scraperVars, pmiVars, inclusion_threshold, self_counts, inclusion_rates_cache,
                   conditional_rates_cache, rate_queries, score_call, last_call, skips, drew_condition>>

\* lines 192-199: the next anchor, its commander's cards shuffled and cut
Shuffle ==
    /\ tpc = "sampling"
    /\ cards_in_commander = <<>>
    /\ pair_idx < Len(pairs)
    /\ LET commander_id == pairs[pair_idx + 1][1]
           cards == IF commander_id \in DOMAIN commander_cards
                    THEN commander_cards[commander_id] ELSE <<>>
           k == SampleSize(Len(cards), examples_per_pair)
       IN  \E shuffled_indices \in Samples(k, Len(cards)) :
                /\ cards_in_commander' = [j \in 1..k |-> cards[shuffled_indices[j]]]
                /\ drew_condition' =
                    IF \E j \in 1..k : cards[shuffled_indices[j]] = pairs[pair_idx + 1][2]
                    THEN drew_condition \cup {pair_idx + 1}
                    ELSE drew_condition
    /\ pair_idx' = pair_idx + 1
    /\ UNCHANGED <<committed, scraperVars, pmiVars, tpc, t_error, inclusion_threshold, threshold, self_counts,
                   cards_above_threshold_cache, inclusion_rates_cache,
                   conditional_rates_cache, commander_cards, pairs, examples_per_pair,
                   data, scores, example_idx, threshold_queries, rate_queries,
                   score_call, last_call, skips>>

\* lines 201-210: one target of the current anchor
ProcessTarget ==
    /\ tpc = "sampling"
    /\ cards_in_commander # <<>>
    /\ LET commander_id == pairs[pair_idx][1]
           condition_card_id == pairs[pair_idx][2]
           target_card_id == Head(cards_in_commander)
           args == ScoreArgs(inclusion_rates_cache, conditional_rates_cache,
                             target_card_id, condition_card_id, commander_id)
           score == pmi(args.conditional_rate, args.inclusion_rate)
       IN  IF IsSelfPair(target_card_id, condition_card_id)
           THEN /\ skips' = skips \cup {pair_idx}
                /\ cards_in_commander' = Tail(cards_in_commander)
                /\ UNCHANGED <<tpc, t_error, data, scores, example_idx, score_call>>
           ELSE /\ score_call' = <<args>>
                /\ IF score.raised # ""
                   THEN /\ tpc' = "error"
                        /\ t_error' = score.raised
                        /\ UNCHANGED <<data, scores, example_idx, cards_in_commander>>
                   ELSE IF example_idx >= Len(data)
                   THEN \* a write past the buffer raises IndexError
                        /\ tpc' = "error"
                        /\ t_error' = "IndexError"
                        /\ UNCHANGED <<data, scores, example_idx, cards_in_commander>>
                   ELSE /\ data' = [data EXCEPT ![example_idx + 1] =
                                        <<commander_id, condition_card_id, target_card_id>>]
                        /\ scores' = [scores EXCEPT ![example_idx + 1] = score.log2_of]
                        /\ example_idx' = example_idx + 1
                        /\ cards_in_commander' = Tail(cards_in_commander)
                        /\ UNCHANGED <<tpc, t_error>>
                /\ UNCHANGED skips
    /\ UNCHANGED <<committed, scraperVars, pmiVars, inclusion_threshold, threshold, self_counts,
                   cards_above_threshold_cache, inclusion_rates_cache,
                   conditional_rates_cache, commander_cards, pairs, examples_per_pair,
                   pair_idx, threshold_queries, rate_queries, last_call, drew_condition>>

\* a buffer returned whole, its unwritten rows included
TrimNothing(buffer, n) == buffer

\* lines 217-218: buffer[:n], the first n rows of a buffer
Trim(buffer, n) == SubSeq(buffer, 1, Min(n, Len(buffer)))

\* lines 217-224: trim both buffers to the rows written, save and return them
Finish ==
    /\ tpc = "sampling"
    /\ cards_in_commander = <<>>
    /\ pair_idx = Len(pairs)
    /\ data' = Trim(data, example_idx)
    /\ scores' = Trim(scores, example_idx)
    /\ tpc' = "done"
    /\ UNCHANGED <<committed, scraperVars, pmiVars, t_error, inclusion_threshold, threshold, self_counts,
                   cards_above_threshold_cache, inclusion_rates_cache,
                   conditional_rates_cache, commander_cards, pairs, examples_per_pair,
                   example_idx, pair_idx, cards_in_commander, threshold_queries,
                   rate_queries, score_call, last_call, skips, drew_condition>>

\* ---------------------------------------------------------- specifications
\* A pipeline run, as scripts/create_training_set.py: the constructor, then
\* create_training_set, over any store within the bounds.
PmiIdle ==
    /\ pmi_in = [c1 |-> RatZero, c2 |-> RatZero, m |-> <<1, 1>>]
    /\ pmi_out = <<>>

Init ==
    /\ committed \in TrainingStores
    /\ ScraperInit
    /\ CreatorInit
    /\ PmiIdle

Next ==
    \/ \E it \in Thresholds : Construct(it)
    \/ \E t \in Thresholds : CreateTrainingSet(t)
    \/ Shuffle
    \/ ProcessTarget
    \/ Finish

Spec == Init /\ [][Next]_vars

\* The constructor, then direct calls of the creator's methods.
NextApi ==
    \/ \E it \in Thresholds : Construct(it)
    \/ \E t \in Thresholds : CallGetCardsAboveThreshold(t)
    \/ \E t \in Thresholds : CallPrecomputeAllConditionalRates(t)

SpecApi == Init /\ [][NextApi]_vars

\* Runs of scripts/scrape_edhrec.py, the first on an empty store, each ending
\* normally, by an exception or by being killed.
InitScrape ==
    /\ committed = EmptyStore
    /\ ScraperInit
    /\ CreatorInit
    /\ PmiIdle

NextScrape ==
    \/ \E continue_existing_db \in BOOLEAN, commanders \in CommanderPages,
          num_commanders \in 1..MaxWebCommanders, per_commander \in 1..MaxPageHashes :
            Main(continue_existing_db, commanders, num_commanders, per_commander)
    \/ \E deck_hashes \in HashPages : NextCommander(deck_hashes)
    \/ \E decklist \in DeckPages : VisitDeck(decklist)
    \/ EndGather
    \/ Interrupt

SpecScrape == InitScrape /\ [][NextScrape]_vars

\* The scorer alone, on a grid of rates: multiples of half the floor
\* min_conditional_rate up to FineSteps of them, and the multiples of
\* 1 / CoarseSteps in [0, 1]; the marginal rate is positive.
FineRates == {Rat(k, 2 * min_conditional_rate[2]) : k \in 0..FineSteps}

CoarseRates == {Rat(k, CoarseSteps) : k \in 0..CoarseSteps}

InitPmi ==
    /\ committed = EmptyStore
    /\ ScraperInit
    /\ CreatorInit
    /\ pmi_in \in [c1 : FineRates \cup CoarseRates, c2 : FineRates \cup CoarseRates,
                   m : CoarseRates \ {RatZero}]
    /\ pmi_out = <<>>

\* pmi(c1, m) and pmi(c2, m)
CallPmi ==
    /\ pmi_out = <<>>
    /\ pmi_out' = <<pmi(pmi_in.c1, pmi_in.m), pmi(pmi_in.c2, pmi_in.m)>>
    /\ UNCHANGED <<committed, scraperVars, creatorVars, pmi_in>>

NextPmi == CallPmi

SpecPmi == InitPmi /\ [][NextPmi]_vars


\* ------------------------------------------------------------------ claims
\* The ratio of the conditional rate's definition, counted from the raw decks
\* and deck_cards rows: decks of the commander holding both cards over decks
\* of the commander holding the condition card.
NaiveConditionalRate(store, commander, condition, target) ==
    Rat(Cardinality({d \in store.decks :
            /\ d.commander_id = commander
            /\ <<d.id, condition>> \in store.deck_cards
            /\ <<d.id, target>> \in store.deck_cards}),
        Cardinality({d \in store.decks :
            /\ d.commander_id = commander
            /\ <<d.id, condition>> \in store.deck_cards}))

\* C1: every entry of the conditional-rate cache equals the number of decks of
\* the commander with both the condition and the target card, divided by the
\* number of decks of the commander with the condition card.
C1_ConditionalRatesMatchNaive ==
    \A k \in DOMAIN conditional_rates_cache :
        conditional_rates_cache[k] = NaiveConditionalRate(committed, k[1], k[2], k[3])

\* C2: in a pipeline run, a scored triple whose cards co-occur in a deck of the
\* commander reaches the scorer with its non-zero conditional rate, never with
\* the missing-entry default 0.
C2_PrecomputedBeforeScoring ==
    \A k \in 1..Len(score_call) :
        LET a == score_call[k]
        IN  (\E d \in committed.decks :
                /\ d.commander_id = a.commander
                /\ <<d.id, a.condition>> \in committed.deck_cards
                /\ <<d.id, a.target>> \in committed.deck_cards)
            => a.conditional_rate # RatZero

\* The vocabulary of a threshold, counted from the raw rows: the cards in
\* strictly more than t distinct decks.
ExactlyAbove(store, t) ==
    {c \in 1..Len(store.cards) :
        Cardinality({d \in store.decks : <<d.id, c>> \in store.deck_cards}) > t}

\* C5: with an empty vocabulary the pipeline fails with a configuration error
\* before any rate precomputation: no precomputation query runs on an empty
\* vocabulary, and create_training_set on an empty vocabulary ends in that
\* error, not in a dataset.
C5_EmptyVocabularyFailsFast ==
    /\ \A q \in rate_queries : q.vocabulary # {}
    /\ (tpc \in {"sampling", "done", "error"} /\ ExactlyAbove(committed, threshold) = {})
        => (tpc = "error" /\ t_error = "ConfigurationError")

\* C6: every scored target has a cached, non-zero marginal inclusion rate, so
\* the scorer never divides by zero.
C6_ScoredTargetsHaveMarginalRate ==
    /\ \A k \in 1..Len(score_call) :
            /\ score_call[k].inclusion_cached
            /\ score_call[k].inclusion_rate # RatZero
    /\ t_error # "ZeroDivisionError"

\* C7: _get_cards_above_threshold(T) yields exactly the cards in strictly more
\* than T distinct decks, and the store is queried at most once per threshold:
\* a repeated call is answered from the cache.
C7_ThresholdFilter ==
    /\ \A t \in DOMAIN cards_above_threshold_cache :
            cards_above_threshold_cache[t] = ExactlyAbove(committed, t)
    /\ \A k \in 1..Len(last_call) :
            last_call[k].result = ExactlyAbove(committed, last_call[k].threshold)
    /\ \A t \in Thresholds : threshold_queries[t] <= 1

\* C7's case: a repeated direct call, answered from the cache, whose threshold
\* excludes a card that is in exactly that many decks and includes another.
C7_Witness ==
    /\ last_call # <<>>
    /\ last_call[1].cached
    /\ last_call[1].result # {}
    /\ \E c \in 1..Len(committed.cards) :
            /\ DeckCount(committed, c) = last_call[1].threshold
            /\ last_call[1].threshold > 0
            /\ c \notin last_call[1].result

\* the distinct targets of the dataset's rows with the given commander
TargetsOfCommander(commander) ==
    {data[k][3] : k \in {j \in 1..Len(data) : data[j][1] = commander}}

\* the distinct targets of the dataset's rows of the anchor pairs[a]
TargetsOfAnchor(a) ==
    {data[k][3] : k \in {j \in 1..Len(data) :
                            data[j][1] = pairs[a][1] /\ data[j][2] = pairs[a][2]}}

\* C8 as stated: in the returned dataset, each commander's anchors together
\* have at most examples_per_pair distinct targets, and exactly that many
\* unless a self-pair skip of one of its anchors reduced it.
C8_PerCommanderBalance ==
    tpc = "done" =>
        \A k \in 1..Len(data) :
            LET n == Cardinality(TargetsOfCommander(data[k][1]))
            IN  /\ n <= examples_per_pair
                /\ (n < examples_per_pair =>
                        \E a \in skips : pairs[a][1] = data[k][1])

\* C8 amended: in the returned dataset, each anchor has at most
\* examples_per_pair distinct targets: exactly examples_per_pair, or one fewer
\* when its self-pair was drawn and skipped.
C8_PerAnchorBalance ==
    tpc = "done" =>
        \A a \in 1..Len(pairs) :
            LET n == Cardinality(TargetsOfAnchor(a))
            IN  /\ n <= examples_per_pair
                /\ \/ n = examples_per_pair /\ a \notin skips
                   \/ n = examples_per_pair - 1 /\ a \in skips

\* C8's case: a returned dataset with a skipped and an unskipped anchor, and a
\* commander with more cards than examples_per_pair.
C8_Witness ==
    /\ tpc = "done"
    /\ skips # {}
    /\ \E a \in 1..Len(pairs) : a \notin skips
    /\ \E c \in DOMAIN commander_cards : Len(commander_cards[c]) > examples_per_pair

\* C9: no row of the dataset has its condition card equal to its target card.
C9_NoSelfPairs ==
    \A k \in 1..example_idx : data[k][2] # data[k][3]

\* C9's case: a returned, non-empty dataset of a run that drew a self-pair.
C9_Witness ==
    /\ tpc = "done"
    /\ example_idx > 0
    /\ skips # {}


\* C3: a deck with more than 99 cards or with a repeated card, handed to
\* _save_decklist under a source key the store did not hold, leaves no decks
\* row and no deck_cards row for that source key, neither in the connection's
\* view after the call nor on disk after a later commit.
C3_InvalidDeckLeavesNoRow ==
    \A h \in rejected :
        \A store \in {db, committed} :
            /\ \A d \in store.decks : d.url_hash # h
            /\ \A d \in store.decks, r \in store.deck_cards :
                    d.url_hash = h => r[1] # d.id

\* C4: no deck that violates an integrity rule ends the batch: gather_decks is
\* never left by the IntegrityError of a deck whose source key is already in
\* the store. Stated for the runs in which the store holds no row of a
\* rejected deck, so that the key met again is that of a saved, valid deck.
C4_MalformedDeckNeverAborts ==
    ~(spc = "aborted" /\ s_error = "sqlite3.IntegrityError" /\ rejected = {})

\* C10 as stated: for a positive marginal rate, a larger conditional rate gives
\* a strictly larger score.
C10_StrictlyMonotone ==
    (pmi_out # <<>> /\ RatLess(pmi_in.c1, pmi_in.c2))
        => RatLess(pmi_out[1].log2_of, pmi_out[2].log2_of)

\* C10 amended: for a positive marginal rate and c1 < c2, the score of c1 is
\* at most the score of c2; it is strictly smaller when c2 exceeds the floor
\* min_conditional_rate, and equal when c2 does not.
C10_MonotoneAboveFloor ==
    (pmi_out # <<>> /\ RatLess(pmi_in.c1, pmi_in.c2))
        => /\ pmi_out[1].raised = "" /\ pmi_out[2].raised = ""
           /\ ~RatLess(pmi_out[2].log2_of, pmi_out[1].log2_of)
           /\ RatLess(min_conditional_rate, pmi_in.c2)
                => RatLess(pmi_out[1].log2_of, pmi_out[2].log2_of)
           /\ ~RatLess(min_conditional_rate, pmi_in.c2)
                => pmi_out[1].log2_of = pmi_out[2].log2_of

\* C10's case: two scores computed, the smaller rate below the floor and the
\* larger above it.
C10_Witness ==
    /\ pmi_out # <<>>
    /\ RatLess(pmi_in.c1, min_conditional_rate)
    /\ RatLess(min_conditional_rate, pmi_in.c2)
    /\ RatLess(pmi_out[1].log2_of, pmi_out[2].log2_of)


\* the rows of the dataset written for the anchor pairs[a]
RowsOfAnchor(a) ==
    {k \in 1..example_idx : data[k][1] = pairs[a][1] /\ data[k][2] = pairs[a][2]}

\* the anchor pairs[a] has been processed to its end
AnchorDone(a) == a < pair_idx \/ (a = pair_idx /\ cards_in_commander = <<>>)

ScoreOfRow(row) ==
    LET args == ScoreArgs(inclusion_rates_cache, conditional_rates_cache,
                          row[3], row[2], row[1])
    IN  pmi(args.conditional_rate, args.inclusion_rate).log2_of

\* C12: example_idx never exceeds the capacity len(pairs) * examples_per_pair
\* of the buffers and no write lands outside them; the rows up to example_idx
\* are the written ones, each with its own score at the same index; the
\* returned data and scores have exactly example_idx rows each.
C12_IndexWithinBuffer ==
    /\ t_error # "IndexError"
    /\ tpc \in {"sampling", "done"} =>
        /\ example_idx <= Len(pairs) * examples_per_pair
        /\ \A i \in 1..example_idx :
                /\ data[i] # ZeroRow
                /\ scores[i] = ScoreOfRow(data[i])
    /\ tpc = "sampling" =>
        /\ Len(data) = Len(pairs) * examples_per_pair
        /\ Len(scores) = Len(pairs) * examples_per_pair
        /\ \A i \in (example_idx + 1)..Len(data) : data[i] = ZeroRow
    /\ tpc = "done" =>
        /\ Len(data) = example_idx
        /\ Len(scores) = example_idx

\* C12's case: a returned dataset shorter than its buffer, holding rows of
\* different scores.
C12_Witness ==
    /\ tpc = "done"
    /\ 0 < example_idx
    /\ example_idx < Len(pairs) * examples_per_pair
    /\ \E i, j \in 1..Len(scores) : scores[i] # scores[j]


\* the name on the commanders row of the highest id
LastCommanderName(store) == store.commanders[LastCommanderId(store)]

\* C13: a run resumed with checkpoint after an interrupted run restarts at the
\* commander that owns the highest commander id of the store, the one whose
\* decks were just removed, also when an earlier commander of the scraped list
\* has no commander row. (The claim's consequence, that the resumed run meets
\* no url_hash still in the store, rests on this restart position.)
C13_ResumeAtLastCommander ==
    (/\ spc = "running"
     /\ checkpoint
     /\ previous_end = "interrupted"
     /\ s_i = 0
     /\ s_commanders # <<>>)
        => s_commanders[1] = LastCommanderName(db)

====
